---- MODULE Spec2Model ----
(***************************************************************************)
(* Argus (bordoni/argus): the OAuth token lifecycle, the one-shot callback *)
(* listener and the conversation download pipeline.                        *)
(*                                                                         *)
(* One behaviour of Spec is one run of `argus conversations download`:     *)
(* the pipeline's position is pc, the environment (clock, browser          *)
(* requests to the local listener, answers of the remote servers, results  *)
(* of file writes) is drawn with \E inside the actions.  SpecAuth is       *)
(* authenticate() alone with every request the listener may receive;       *)
(* SpecPure calls the helpers (extractConversationId, sanitizeFilename,    *)
(* cleanHtml, calculateThreadStatistics) on every argument of a bounded    *)
(* set.                                                                    *)
(***************************************************************************)
EXTENDS Integers, Sequences, FiniteSets, TLC

VARIABLES
    now,          \* Date.now(), epoch milliseconds
    tokenFile,    \* ~/.argus/tokens.json: [exists, data]
    redirectPath, \* path of this.redirectUri (REDIRECT_URI or the default)
    pc,           \* position of downloadConversation
    call,         \* the last OAuthManager call: what it saw, did and returned
    authFlow,     \* what authenticate() did: the order of the calls it made
    server,       \* the Bun.serve listener: "unbound", "listening", "stopped"
    nonce,        \* the state nonce of startAuthServer
    promise,      \* the promise startAuthServer returned
    timers,       \* pending setTimeout(..., 100) callbacks: the codes they hold
    lastReq,      \* the last request the listener answered, with its answer
    nreq,         \* requests delivered to the listener so far
    goodCodes,    \* codes that arrived at /auth with the session's state
    link,         \* the <link> argument of the command
    conversationId,
    conversation, \* the fetched conversation
    done,         \* attachments the download loop has finished with
    attempts,     \* the loop's iterations so far: key and outcome of each
    attachmentPaths, \* the Map of the path index, as its set of entries
    files,        \* the files written under the output directory, in order
    markdown,     \* the attachment entries of the rendered transcript
    metadata,     \* the content of metadata.json
    failures,     \* the pipeline steps that threw, with the error kind
    inFlight,     \* keys of the attachments whose download has begun and not ended
    summary,      \* the statistics of the Summary section of the transcript
    pure          \* a call of a helper on its own: [fn, arg, applied, out]

authVars == <<server, nonce, promise, timers, lastReq, nreq, goodCodes>>
runVars == <<link, conversationId, conversation, done, inFlight, attempts,
             attachmentPaths, files, markdown, summary, metadata, failures, pure>>

vars == <<now, tokenFile, redirectPath, pc, call, authFlow, authVars, runVars>>

----------------------------------------------------------------------------
(* Bounds of the model *)

MaxTicks == 2       \* clock steps in one run
MaxRequests == 2    \* requests sent to the listener (SpecAuth)
MaxCallbacks == 1   \* requests sent to the listener (Spec)
MaxLinkLen == 4     \* tokens of a <link> argument (SpecPure)
MaxHtmlLen == 4     \* tags, entities and characters of a thread body (SpecPure)
MaxNameLen == 4     \* characters of an attachment's filename (SpecPure)
MaxTwinLen == 2     \* characters of the filenames of two attachments (SpecPure)
MaxThreads == 3     \* threads of a conversation given to the statistics (SpecPure)

ClockStep == 30 * 1000

----------------------------------------------------------------------------
(* JSON token objects.  A field is in .fields when the object holds a value *)
(* of the type TokenSchema wants for it; an absent, null or NaN field is    *)
(* not in .fields and keeps the placeholder value.                          *)

Undef == "<undefined>"
NullParam == "<null>"

TokenFieldNames ==
    {"access_token", "refresh_token", "token_type", "expires_in", "expires_at"}

NoData ==
    [fields |-> {}, access_token |-> Undef, refresh_token |-> Undef,
     token_type |-> Undef, expires_in |-> 0, expires_at |-> 0]

TokenObject(fs, at, rt, ein, eat) ==
    [fields |-> fs,
     access_token  |-> IF "access_token" \in fs THEN at ELSE Undef,
     refresh_token |-> IF "refresh_token" \in fs THEN rt ELSE Undef,
     token_type    |-> IF "token_type" \in fs THEN "bearer" ELSE Undef,
     expires_in    |-> IF "expires_in" \in fs THEN ein ELSE 0,
     expires_at    |-> IF "expires_at" \in fs THEN eat ELSE 0]

ExpiryMarginMs == 60000

(* TokenSchema.parse: every field present with its type *)
TokenSchemaOk(d) == TokenFieldNames \subseteq d.fields

NoFile == [exists |-> FALSE, data |-> NoData]

(* loadTokens: null when the file is missing or does not parse *)
LoadTokens(file) ==
    IF ~file.exists THEN [some |-> FALSE, rec |-> NoData]
    ELSE IF ~TokenSchemaOk(file.data) THEN [some |-> FALSE, rec |-> NoData]
    ELSE [some |-> TRUE, rec |-> file.data]

(* saveTokens: the file now holds JSON.stringify(tokens) *)
SaveTokens(tokens) == [exists |-> TRUE, data |-> tokens]

(* { ...data, expires_at: Date.now() + data.expires_in * 1000 }: the spread *)
(* comes first, so a server-sent expires_at is overwritten; without a       *)
(* numeric expires_in the sum is NaN, which is no number for the schema.    *)
WithExpiresAt(data, t) ==
    IF "expires_in" \in data.fields
    THEN [data EXCEPT !.fields = @ \cup {"expires_at"},
                      !.expires_at = t + data.expires_in * 1000]
    ELSE [data EXCEPT !.fields = @ \ {"expires_at"}, !.expires_at = 0]

(* the result of an OAuthManager call *)
Threw(err, file, trace) ==
    [ok |-> FALSE, err |-> err, value |-> Undef, file |-> file, trace |-> trace]
Returned(value, file, trace) ==
    [ok |-> TRUE, err |-> "none", value |-> value, file |-> file, trace |-> trace]

(* exchangeCodeForToken(code); resp is the token endpoint's answer *)
ExchangeCodeForToken(file, t, resp) ==
    IF ~resp.ok
    THEN Threw("TokenExchangeFailed", file, <<"POST authorization_code">>)
    ELSE LET tokenData == WithExpiresAt(resp.data, t)
         IN  Returned(tokenData.access_token, SaveTokens(tokenData),
                      <<"POST authorization_code", "save">>)

(* refreshAccessToken without the `if (!response.ok)` check *)
RefreshAccessToken_NoStatusCheck(file, t, resp) ==
    LET tokens == LoadTokens(file)
    IN  IF ~tokens.some \/ tokens.rec.refresh_token = ""
        THEN Threw("ReauthenticationRequired", file, <<>>)
        ELSE LET tokenData == WithExpiresAt(resp.data, t)
             IN  Returned(tokenData.access_token, SaveTokens(tokenData),
                          <<"POST refresh_token", "save">>)

(* refreshAccessToken(); resp is the token endpoint's answer *)
RefreshAccessToken(file, t, resp) ==
    LET tokens == LoadTokens(file)
    IN  IF ~tokens.some \/ tokens.rec.refresh_token = ""
        THEN Threw("ReauthenticationRequired", file, <<>>)
        ELSE IF ~resp.ok
        THEN Threw("ReauthenticationRequired", file, <<"POST refresh_token">>)
        ELSE LET tokenData == WithExpiresAt(resp.data, t)
             IN  Returned(tokenData.access_token, SaveTokens(tokenData),
                          <<"POST refresh_token", "save">>)

(* getValidToken with the comparison of the expiry check inverted *)
GetValidToken_InvertedExpiry(file, t, resp) ==
    LET tokens == LoadTokens(file)
    IN  IF ~tokens.some
        THEN Threw("Unauthenticated", file, <<>>)
        ELSE IF t <= tokens.rec.expires_at - ExpiryMarginMs
        THEN RefreshAccessToken(file, t, resp)
        ELSE Returned(tokens.rec.access_token, file, <<>>)

(* getValidToken with > for >= : no refresh at the very edge of the margin *)
GetValidToken_StrictExpiry(file, t, resp) ==
    LET tokens == LoadTokens(file)
    IN  IF ~tokens.some
        THEN Threw("Unauthenticated", file, <<>>)
        ELSE IF t > tokens.rec.expires_at - ExpiryMarginMs
        THEN RefreshAccessToken(file, t, resp)
        ELSE Returned(tokens.rec.access_token, file, <<>>)

(* getValidToken without the `if (!tokens)` check: it goes on to refresh *)
GetValidToken_NoNullCheck(file, t, resp) ==
    LET tokens == LoadTokens(file)
    IN  IF ~tokens.some \/ t >= tokens.rec.expires_at - ExpiryMarginMs
        THEN RefreshAccessToken(file, t, resp)
        ELSE Returned(tokens.rec.access_token, file, <<>>)

(* getValidToken(); resp answers the refresh request if one is sent *)
GetValidToken(file, t, resp) ==
    LET tokens == LoadTokens(file)
    IN  IF ~tokens.some
        THEN Threw("Unauthenticated", file, <<>>)
        ELSE IF t >= tokens.rec.expires_at - ExpiryMarginMs
        THEN RefreshAccessToken(file, t, resp)
        ELSE Returned(tokens.rec.access_token, file, <<>>)

----------------------------------------------------------------------------
(* Strings are sequences of characters; a link is a sequence of tokens,    *)
(* where "conversation" and "https://host/" stand for those literal texts. *)

Digit == {"0", "1", "2", "3", "4", "5", "6", "7", "8", "9"}
DigitOf(n) == <<"0", "1", "2", "3", "4", "5", "6", "7", "8", "9">>[n + 1]

RECURSIVE NumToStr(_)
(* `${n}` for a non-negative integer *)
NumToStr(n) == IF n < 10 THEN <<DigitOf(n)>> ELSE NumToStr(n \div 10) \o <<DigitOf(n % 10)>>

(* the longest run of digits of s that starts at position i *)
RECURSIVE DigitRun(_, _)
DigitRun(s, i) ==
    IF i <= Len(s) /\ s[i] \in Digit THEN <<s[i]>> \o DigitRun(s, i + 1) ELSE <<>>

(* does the literal lit occur in s at position i *)
LiteralAt(s, i, lit) ==
    /\ i + Len(lit) - 1 <= Len(s)
    /\ \A k \in 1..Len(lit) : s[i + k - 1] = lit[k]

(* s.match(/lit(\d+)/): the digits captured by the leftmost match *)
MatchLiteralDigits(s, lit) ==
    LET hits == {i \in 1..Len(s) : LiteralAt(s, i, lit) /\ DigitRun(s, i + Len(lit)) # <<>>}
    IN  IF hits = {} THEN [matched |-> FALSE, group |-> <<>>]
        ELSE LET i == CHOOSE h \in hits : \A g \in hits : h <= g
             IN  [matched |-> TRUE, group |-> DigitRun(s, i + Len(lit))]

(* s.match(/^(\d+)$/) *)
MatchAllDigits(s) ==
    IF s # <<>> /\ DigitRun(s, 1) = s
    THEN [matched |-> TRUE, group |-> s] ELSE [matched |-> FALSE, group |-> <<>>]

(* extractConversationId without the pattern /^(\d+)$/ *)
ExtractConversationId_NoBareId(ref) ==
    LET m1 == MatchLiteralDigits(ref, <<"conversation", "/">>)
        m2 == MatchLiteralDigits(ref, <<"conversation", "s", "/">>)
    IN  IF m1.matched THEN [ok |-> TRUE, id |-> m1.group]
        ELSE IF m2.matched THEN [ok |-> TRUE, id |-> m2.group]
        ELSE [ok |-> FALSE, id |-> <<>>]

(* HelpScoutClient.extractConversationId: the patterns in order, first wins *)
ExtractConversationId(ref) ==
    LET m1 == MatchLiteralDigits(ref, <<"conversation", "/">>)
        m2 == MatchLiteralDigits(ref, <<"conversation", "s", "/">>)
        m3 == MatchAllDigits(ref)
    IN  IF m1.matched THEN [ok |-> TRUE, id |-> m1.group]
        ELSE IF m2.matched THEN [ok |-> TRUE, id |-> m2.group]
        ELSE IF m3.matched THEN [ok |-> TRUE, id |-> m3.group]
        ELSE [ok |-> FALSE, id |-> <<>>]

UnsafeChars == {"<", ">", ":", "\"", "/", "\\", "|", "?", "*"}
Whitespace == {" ", "\t", "\n"}

(* .replace(/[<>:"/\\|?*]/g, '_') *)
ReplaceUnsafe(s) == [i \in 1..Len(s) |-> IF s[i] \in UnsafeChars THEN "_" ELSE s[i]]

(* .replace(/X+/g, '_') resp. .replace(/_{2,}/g, '_'): every maximal run of *)
(* characters of cls becomes one underscore                                *)
RECURSIVE CollapseRuns(_, _)
CollapseRuns(s, cls) ==
    IF s = <<>> THEN <<>>
    ELSE IF Head(s) \in cls
    THEN IF Len(s) > 1 /\ s[2] \in cls
         THEN CollapseRuns(Tail(s), cls)
         ELSE <<"_">> \o CollapseRuns(Tail(s), cls)
    ELSE <<Head(s)>> \o CollapseRuns(Tail(s), cls)

(* .replace(/^_+|_+$/g, '') *)
RECURSIVE TrimUnderscores(_)
TrimUnderscores(s) ==
    IF s = <<>> THEN <<>>
    ELSE IF Head(s) = "_" THEN TrimUnderscores(Tail(s))
    ELSE IF s[Len(s)] = "_" THEN TrimUnderscores(SubSeq(s, 1, Len(s) - 1))
    ELSE s

(* sanitizeFilename without .replace(/_{2,}/g, '_') *)
SanitizeFilename_NoCollapse(filename) ==
    TrimUnderscores(CollapseRuns(ReplaceUnsafe(filename), Whitespace))

(* sanitizeFilename *)
SanitizeFilename(filename) ==
    TrimUnderscores(CollapseRuns(CollapseRuns(ReplaceUnsafe(filename), Whitespace), {"_"}))

(* `${thread.id}${attachment.id}${sanitizedFilename}`: no separators *)
UniqueFilename_NoSeparators(tid, aid, filename) ==
    NumToStr(tid) \o NumToStr(aid) \o SanitizeFilename(filename)

(* `${thread.id}_${attachment.id}_${sanitizedFilename}` *)
UniqueFilename(tid, aid, filename) ==
    NumToStr(tid) \o <<"_">> \o NumToStr(aid) \o <<"_">> \o SanitizeFilename(filename)

(* the key of the path index: `${thread.id}-${attachment.id}` *)
PathKey(tid, aid) == NumToStr(tid) \o <<"-">> \o NumToStr(aid)

(* An optional array field of an API object *)
Absent == [has |-> FALSE, items |-> <<>>]
Present(items) == [has |-> TRUE, items |-> items]

(* a.x || a._embedded?.x || []: the direct field first *)
EmbeddedOrDirect_DirectFirst(embedded, direct) ==
    IF direct.has THEN direct.items
    ELSE IF embedded.has THEN embedded.items
    ELSE <<>>

(* a._embedded?.x || a.x || []: an array, even an empty one, is truthy *)
EmbeddedOrDirect(embedded, direct) ==
    IF embedded.has THEN embedded.items
    ELSE IF direct.has THEN direct.items
    ELSE <<>>

ThreadsOf(conv) == EmbeddedOrDirect(conv.embedded, conv.threads)
AttachmentsOf(thread) == EmbeddedOrDirect(thread.embedded, thread.attachments)

(* totalAttachments of downloadConversation: the sum over the threads *)
RECURSIVE CountAttachments(_)
CountAttachments(threads) ==
    IF threads = <<>> THEN 0
    ELSE Len(AttachmentsOf(Head(threads))) + CountAttachments(Tail(threads))

(* the order in which the two nested loops visit the attachments *)
RECURSIVE DownloadOrder(_)
DownloadOrder(threads) ==
    IF threads = <<>> THEN <<>>
    ELSE LET t == Head(threads)
             as == AttachmentsOf(t)
         IN  [i \in 1..Len(as) |-> [tid |-> t.id, att |-> as[i]]]
             \o DownloadOrder(Tail(threads))

(* `${n}` for an integer *)
IntToStr(n) == IF n < 0 THEN <<"-">> \o NumToStr(0 - n) ELSE NumToStr(n)

(* `${n} unit${n !== 1 ? 's' : ''}` *)
Plural(n, unit) == IntToStr(n) \o <<unit>> \o (IF n # 1 THEN <<"s">> ELSE <<>>)

(* the categories of calculateThreadStatistics, tested in its order *)
IsNote(thread) == thread.type = "note"
IsCustomerThread(thread) ==
    ~IsNote(thread) /\ (thread.type = "customer" \/ thread.customer)
IsSupportReply(thread) ==
    ~IsNote(thread) /\ ~IsCustomerThread(thread) /\ thread.type \in {"reply", "message"}

NoTime == [set |-> FALSE, t |-> 0]
TimeOf(thread) == [set |-> TRUE, t |-> thread.createdAt]

(* firstCustomerMessageTime and firstSupportReplyTime after the loop over  *)
(* threads, taken in the order of the array                                *)
RECURSIVE FirstTimes(_, _, _)
FirstTimes(threads, customer, reply) ==
    IF threads = <<>> THEN [customer |-> customer, reply |-> reply]
    ELSE LET t == Head(threads)
         IN  IF IsCustomerThread(t) /\ ~customer.set
             THEN FirstTimes(Tail(threads), TimeOf(t), reply)
             ELSE IF IsSupportReply(t) /\ ~reply.set /\ customer.set
             THEN FirstTimes(Tail(threads), customer, TimeOf(t))
             ELSE FirstTimes(Tail(threads), customer, reply)

NoResponseTime == [shown |-> FALSE, text |-> <<>>]

(* the responseTime string: Math.floor of the difference, coarsest unit first *)
ResponseTime(first) ==
    IF ~(first.customer.set /\ first.reply.set) THEN NoResponseTime
    ELSE LET diffMs == first.reply.t - first.customer.t
             diffMins == diffMs \div 60000
             diffHours == diffMins \div 60
             diffDays == diffHours \div 24
         IN  [shown |-> TRUE,
              text |-> IF diffDays > 0
                       THEN Plural(diffDays, " day") \o <<" ">>
                            \o Plural(diffHours % 24, " hour")
                       ELSE IF diffHours > 0
                       THEN Plural(diffHours, " hour") \o <<" ">>
                            \o Plural(diffMins % 60, " minute")
                       ELSE Plural(diffMins, " minute")]

(* calculateThreadStatistics *)
CalculateThreadStatistics(threads) ==
    [totalThreads |-> Len(threads),
     customerMessages |-> Cardinality({i \in 1..Len(threads) : IsCustomerThread(threads[i])}),
     supportReplies |-> Cardinality({i \in 1..Len(threads) : IsSupportReply(threads[i])}),
     internalNotes |-> Cardinality({i \in 1..Len(threads) : IsNote(threads[i])}),
     totalAttachments |-> CountAttachments(threads),
     responseTime |-> ResponseTime(FirstTimes(threads, NoTime, NoTime))]

(* A thread body is a sequence of lexemes: a character of text, an entity, *)
(* an opening anchor <a href="v">, or another tag <v>; the Markdown is a   *)
(* sequence of characters.                                                 *)
HtmlText(c) == [k |-> "text", v |-> c]
HtmlEntity(name) == [k |-> "entity", v |-> name]
OpenAnchor(href) == [k |-> "a", v |-> href]
HtmlTag(name) == [k |-> "tag", v |-> name]
CloseAnchor == HtmlTag("/a")

(* String.prototype.replace with a replacement pattern: $1 stands for the  *)
(* first capture group of the regular expression that matched; when that   *)
(* expression has no such group, the two characters stay as they are       *)
Substitute(template, groups) ==
    [i \in 1..Len(template) |->
        IF template[i] = "$1" /\ Len(groups) >= 1 THEN groups[1] ELSE template[i]]

(* the character U+0060 *)
Backquote == "U+0060"

(* the replacements of cleanHtml for the tags it knows, lines 217-242; the *)
(* anchor rules are /<a\s+href="([^"]+)"[^>]*>/ -> '[', whose group is the  *)
(* href, and /<\/a>/ -> ']($1)', which has no group                        *)
TagMarkdown(tok) ==
    IF tok.k = "a" THEN Substitute(<<"[">>, <<tok.v>>)
    ELSE IF tok.v = "/a" THEN Substitute(<<"]", "(", "$1", ")">>, <<>>)
    ELSE IF tok.v = "br" THEN <<"\n">>
    ELSE IF tok.v = "/p" THEN <<"\n", "\n">>
    ELSE IF tok.v \in {"div", "/div", "/blockquote", "ul", "/ul", "ol", "/ol", "/li"}
    THEN <<"\n">>
    ELSE IF tok.v = "blockquote" THEN <<">", " ">>
    ELSE IF tok.v \in {"strong", "/strong", "b", "/b"} THEN <<"*", "*">>
    ELSE IF tok.v \in {"em", "/em", "i", "/i"} THEN <<"*">>
    ELSE IF tok.v \in {"code", "/code"} THEN <<Backquote>>
    ELSE IF tok.v = "pre" THEN <<Backquote, Backquote, Backquote, "\n">>
    ELSE IF tok.v = "/pre" THEN <<"\n", Backquote, Backquote, Backquote>>
    ELSE IF tok.v = "li" THEN <<"-", " ">>
    ELSE <<>>   \* <p>, and .replace(/<[^>]+>/g, '') for every other tag

(* the entities of lines 244-249 *)
EntityChar(name) ==
    IF name = "nbsp" THEN <<" ">>
    ELSE IF name = "lt" THEN <<"<">>
    ELSE IF name = "gt" THEN <<">">>
    ELSE IF name = "amp" THEN <<"&">>
    ELSE IF name = "quot" THEN <<"\"">>
    ELSE IF name = "#39" THEN <<"'">>
    ELSE <<"&">> \o <<name>> \o <<";">>

RECURSIVE ReplaceLexemes(_)
ReplaceLexemes(html) ==
    IF html = <<>> THEN <<>>
    ELSE LET tok == Head(html)
         IN  (IF tok.k = "text" THEN <<tok.v>>
              ELSE IF tok.k = "entity" THEN EntityChar(tok.v)
              ELSE TagMarkdown(tok))
             \o ReplaceLexemes(Tail(html))

(* .replace(/\n{3,}/g, '\n\n') *)
RECURSIVE CollapseNewlines(_)
CollapseNewlines(s) ==
    IF Len(s) >= 3 /\ s[1] = "\n" /\ s[2] = "\n" /\ s[3] = "\n"
    THEN CollapseNewlines(Tail(s))
    ELSE IF s = <<>> THEN <<>>
    ELSE <<Head(s)>> \o CollapseNewlines(Tail(s))

(* .trim() *)
RECURSIVE TrimWhitespace(_)
TrimWhitespace(s) ==
    IF s = <<>> THEN <<>>
    ELSE IF Head(s) \in {" ", "\n"} THEN TrimWhitespace(Tail(s))
    ELSE IF s[Len(s)] \in {" ", "\n"} THEN TrimWhitespace(SubSeq(s, 1, Len(s) - 1))
    ELSE s

(* cleanHtml *)
CleanHtml(html) == TrimWhitespace(CollapseNewlines(ReplaceLexemes(html)))

NoSummary ==
    [totalThreads |-> 0, customerMessages |-> 0, supportReplies |-> 0,
     internalNotes |-> 0, totalAttachments |-> 0, responseTime |-> NoResponseTime]

----------------------------------------------------------------------------
(* The environment's values *)

FullFields == TokenFieldNames

(* 2xx bodies of the token endpoint *)
TokenBodies ==
    { TokenObject(FullFields \ {"expires_at"}, "at1", "rt1", 90, 0),
      TokenObject(FullFields, "at2", "rt2", 60, 5),
      TokenObject(FullFields \ {"expires_at", "refresh_token"}, "at3", Undef, 90, 0),
      TokenObject(FullFields \ {"expires_in"}, "at4", "rt4", 0, 5) }

TokenResponses ==
    {[ok |-> FALSE, data |-> NoData]} \cup {[ok |-> TRUE, data |-> b] : b \in TokenBodies}

(* what tokens.json may hold when the run starts *)
InitialTokenFiles ==
    {NoFile}
    \cup {SaveTokens(TokenObject(FullFields, "at0", rt, 90, eat)) :
            rt \in {"rt0", ""}, eat \in {60000, 90000}}
    \cup {SaveTokens(TokenObject(FullFields \ {"refresh_token"}, "at0", Undef, 90, 90000))}

(* attachments, threads and conversations the API may return *)
Att1 == [id |-> 1, filename |-> <<"a", ".", "p">>, link |-> TRUE, size |-> 1536]
Att2 == [id |-> 2, filename |-> <<"b", ":", " ", "c">>, link |-> FALSE, size |-> 500]
Att3 == [id |-> 3, filename |-> <<"?">>, link |-> TRUE, size |-> 0]

Thread(id, type, createdAt, direct, embedded) ==
    [id |-> id, type |-> type, createdAt |-> createdAt, customer |-> type = "customer",
     attachments |-> direct, embedded |-> embedded]

Conversations ==
    { \* the direct field only: a customer message whose attachment has no link
      [id |-> 7, threads |-> Present(<<Thread(1, "customer", 0, Present(<<Att2>>), Absent),
                                      Thread(2, "reply", 300000, Absent, Absent)>>),
       embedded |-> Absent],
      \* the embedded wrapper only
      [id |-> 8, threads |-> Absent,
       embedded |-> Present(<<Thread(1, "customer", 0, Absent, Present(<<Att1, Att2>>)),
                              Thread(12, "reply", 60000, Present(<<Att3>>), Absent)>>)],
      \* no threads at all
      [id |-> 9, threads |-> Absent, embedded |-> Absent],
      \* both fields, with different contents
      [id |-> 10, threads |-> Present(<<Thread(3, "customer", 0, Present(<<Att3>>), Absent)>>),
       embedded |-> Present(<<Thread(4, "customer", 0, Present(<<Att1>>), Present(<<Att3>>)),
                              Thread(5, "note", 60000, Present(<<Att1>>), Present(<<>>))>>)] }

NoConversation == [id |-> 0, threads |-> Absent, embedded |-> Absent]

Links ==
    { <<"1", "2">>,
      <<"https://host/", "conversation", "/", "7", "/", "thread", "/", "1">>,
      <<"https://host/", "thread", "/", "1">> }

Nonces == {"n1", "n2"}
Codes == {"c1", "c2"}
Paths == {"/auth", "/callback", "/favicon.ico"}

(* requests the listener may receive: any path, any state, any code *)
AllRequests ==
    [path : Paths, state : Nonces \cup {NullParam}, code : Codes \cup {NullParam, ""}]
(* the callbacks of one browser redirect: the session's state or another one *)
CallbackRequests == [path : {"/auth"}, state : Nonces, code : {"c1"}]

(* the record of an OAuthManager call: the file and the clock it saw, the   *)
(* token endpoint's answer if it sent a request, and its result            *)
NoResponse == [ok |-> FALSE, data |-> NoData]
NoCall == [fn |-> "none", before |-> NoFile, at |-> 0, asked |-> FALSE,
           answer |-> NoResponse, res |-> Returned(Undef, NoFile, <<>>)]
Call(fn, file, t, resp, res) ==
    [fn |-> fn, before |-> file, at |-> t, asked |-> res.trace # <<>>,
     answer |-> IF res.trace # <<>> THEN resp ELSE NoResponse, res |-> res]

(* an entry of authFlow *)
Did(fn, arg, err) == [fn |-> fn, arg |-> arg, err |-> err]

(* no helper is called on its own during a run of the command *)
NotApplied == [applied |-> FALSE, out |-> <<>>]
Idle == [fn |-> "none", arg |-> <<>>, applied |-> FALSE, out |-> <<>>, again |-> NotApplied]

(* a helper about to be called with the argument arg *)
PureCall(fn, arg) ==
    [fn |-> fn, arg |-> arg, applied |-> FALSE, out |-> <<>>, again |-> NotApplied]

(* all sequences over S of length at most n *)
SeqsUpTo(S, n) == UNION {[1..k -> S] : k \in 0..n}

(* the thread bodies the API may return *)
HtmlLexemes ==
    {HtmlText("T"), HtmlText(" "), HtmlEntity("amp"), OpenAnchor("H1"), OpenAnchor("H2"),
     CloseAnchor, HtmlTag("br"), HtmlTag("b"), HtmlTag("span")}
ThreadBodies == SeqsUpTo(HtmlLexemes, MaxHtmlLen)

(* the threads the statistics may see: a customer message, a reply of the  *)
(* support, a reply that carries a customer field, a note; each created at *)
(* the start, 30 seconds, 90 minutes or 25 hours and a minute later        *)
CreationTimes == {0, 30000, 5400000, 90060000}
StatThread(type, createdAt, hasCustomer) ==
    [id |-> 1, type |-> type, createdAt |-> createdAt, customer |-> hasCustomer,
     attachments |-> Absent, embedded |-> Absent]
StatThreads ==
    {StatThread(k[1], t, k[2]) :
        k \in {<<"customer", TRUE>>, <<"reply", FALSE>>, <<"reply", TRUE>>, <<"note", FALSE>>},
        t \in CreationTimes}
ThreadLists == SeqsUpTo(StatThreads, MaxThreads)

(* the filenames an attachment may carry *)
FilenameChars == {"a", ".", "_", " ", "\t", "/", "\\", "*"}
Filenames == SeqsUpTo(FilenameChars, MaxNameLen)

(* two attachments of one conversation, as the download loop meets them:  *)
(* thread and attachment ids whose digits read alike (1,12 and 11,2) and   *)
(* filenames of digits, underscores and unsafe characters, which may       *)
(* sanitize to the same or to the empty string                             *)
TwinThreadIds == {1, 11}
TwinAttachmentIds == {2, 12}
TwinNameChars == {"1", "_", "?"}
TwinEntries ==
    {[tid |-> t, att |-> [id |-> a, filename |-> f, link |-> TRUE, size |-> 1]] :
        t \in TwinThreadIds, a \in TwinAttachmentIds,
        f \in SeqsUpTo(TwinNameChars, MaxTwinLen)}
TwinLists == {<<x, y>> : x \in TwinEntries, y \in TwinEntries}

(* the <link> arguments a user may type *)
LinkTokens == {"https://host/", "conversation", "s", "/", "1", "2", "x"}
LinkArguments == SeqsUpTo(LinkTokens, MaxLinkLen)

NoReq == [path |-> "none", state |-> NullParam, code |-> NullParam, status |-> 0]
Pending == [status |-> "pending", value |-> Undef]

----------------------------------------------------------------------------
Init ==
    /\ now = 0
    /\ tokenFile \in InitialTokenFiles
    /\ redirectPath \in {"/auth", "/callback"}
    /\ pc = "authenticate"
    /\ call = NoCall
    /\ authFlow = <<>>
    /\ server = "unbound"
    /\ nonce = NullParam
    /\ promise = [status |-> "none", value |-> Undef]
    /\ timers = <<>>
    /\ lastReq = NoReq
    /\ nreq = 0
    /\ goodCodes = {}
    /\ link \in Links
    /\ conversationId = <<>>
    /\ conversation = NoConversation
    /\ done = 0
    /\ attempts = <<>>
    /\ attachmentPaths = {}
    /\ files = <<>>
    /\ markdown = <<>>
    /\ metadata = [written |-> FALSE, attachmentCount |-> 0]
    /\ failures = {}
    /\ inFlight = {}
    /\ summary = NoSummary
    /\ pure = Idle

(* the clock advances between any two steps *)
Tick ==
    /\ now < MaxTicks * ClockStep
    /\ now' = now + ClockStep
    /\ UNCHANGED <<tokenFile, redirectPath, pc, call, authFlow, authVars, runVars>>

Failure(step, kind) == [step |-> step, kind |-> kind]

(* a catch clause that handles the missing record only and rethrows the rest *)
CaughtByAuthenticate_OnlyUnauthenticated(r) == ~r.ok /\ r.err = "Unauthenticated"

(* `catch (error)` of authenticate: the clause has no condition, so every  *)
(* failure of getValidToken enters it                                      *)
CaughtByAuthenticate(r) == ~r.ok

(* HelpScoutClient.authenticate up to its first suspension: getValidToken, *)
(* and in the catch block the call of startAuthServer, which binds the     *)
(* listener and returns the pending promise.                               *)
Authenticate ==
    /\ pc = "authenticate"
    /\ \E resp \in TokenResponses, n \in Nonces :
         LET r == GetValidToken(tokenFile, now, resp)
         IN  /\ call' = Call("getValidToken", tokenFile, now, resp, r)
             /\ tokenFile' = r.file
             /\ IF r.ok
                THEN /\ pc' = "extract"
                     /\ authFlow' = <<Did("getValidToken", Undef, "none")>>
                     /\ UNCHANGED <<server, nonce, promise, failures>>
                ELSE IF CaughtByAuthenticate(r)
                THEN /\ pc' = "awaitCallback"
                     /\ authFlow' = <<Did("getValidToken", Undef, r.err),
                                      Did("startAuthServer", Undef, "none")>>
                     /\ server' = "listening"
                     /\ nonce' = n
                     /\ promise' = Pending
                     /\ UNCHANGED failures
                ELSE /\ pc' = "aborted"
                     /\ authFlow' = <<Did("getValidToken", Undef, r.err)>>
                     /\ failures' = failures \cup {Failure("authenticate", r.err)}
                     /\ UNCHANGED <<server, nonce, promise>>
    /\ UNCHANGED <<now, redirectPath, timers, lastReq, nreq, goodCodes, link, pure,
                   conversationId, conversation, done, inFlight, attempts, attachmentPaths, files,
                   markdown, summary, metadata>>

(* resolve / reject of a promise: only the first settlement counts *)
Resolve(p, v) == IF p.status = "pending" THEN [status |-> "resolved", value |-> v] ELSE p
Reject(p, e) == IF p.status = "pending" THEN [status |-> "rejected", value |-> e] ELSE p

(* the handler without the comparison of the returned state *)
HandleRequest_NoStateCheck(path, st, code) ==
    IF path = "/auth"
    THEN IF code \in {NullParam, ""}
         THEN [status |-> 400, stop |-> TRUE, reject |-> "MissingAuthorizationCode",
               timer |-> <<>>]
         ELSE [status |-> 200, stop |-> FALSE, reject |-> "none", timer |-> <<code>>]
    ELSE [status |-> 404, stop |-> FALSE, reject |-> "none", timer |-> <<>>]

(* the handler without server.stop() in the state-mismatch branch *)
HandleRequest_NoStopOnMismatch(path, st, code) ==
    IF path = "/auth"
    THEN IF st # nonce
         THEN [status |-> 400, stop |-> FALSE, reject |-> "CsrfStateMismatch", timer |-> <<>>]
         ELSE IF code \in {NullParam, ""}
         THEN [status |-> 400, stop |-> TRUE, reject |-> "MissingAuthorizationCode",
               timer |-> <<>>]
         ELSE [status |-> 200, stop |-> FALSE, reject |-> "none", timer |-> <<code>>]
    ELSE [status |-> 404, stop |-> FALSE, reject |-> "none", timer |-> <<>>]

(* The fetch handler of the listener, for one request.  server.stop() ends *)
(* the delivery of requests; the success branch only arms a 100 ms timer.  *)
HandleRequest(path, st, code) ==
    IF path = "/auth"
    THEN IF st # nonce
         THEN [status |-> 400, stop |-> TRUE, reject |-> "CsrfStateMismatch", timer |-> <<>>]
         ELSE IF code \in {NullParam, ""}
         THEN [status |-> 400, stop |-> TRUE, reject |-> "MissingAuthorizationCode",
               timer |-> <<>>]
         ELSE [status |-> 200, stop |-> FALSE, reject |-> "none", timer |-> <<code>>]
    ELSE [status |-> 404, stop |-> FALSE, reject |-> "none", timer |-> <<>>]

(* a browser (or anything else on localhost) sends a request to the port *)
Request(reqs, max) ==
    /\ server = "listening"
    /\ nreq < max
    /\ \E q \in reqs :
         LET h == HandleRequest(q.path, q.state, q.code)
         IN  /\ server' = IF h.stop THEN "stopped" ELSE server
             /\ promise' = IF h.reject # "none" THEN Reject(promise, h.reject) ELSE promise
             /\ timers' = timers \o h.timer
             /\ lastReq' = [path |-> q.path, state |-> q.state, code |-> q.code,
                            status |-> h.status]
             /\ goodCodes' = IF q.path = "/auth" /\ q.state = nonce /\ q.code \in Codes
                             THEN goodCodes \cup {q.code} ELSE goodCodes
    /\ nreq' = nreq + 1
    /\ UNCHANGED <<now, tokenFile, redirectPath, pc, call, authFlow, nonce, runVars>>

(* the oldest setTimeout callback runs: server.stop(); resolve(code) *)
TimerFire ==
    /\ timers # <<>>
    /\ server' = IF server = "listening" THEN "stopped" ELSE server
    /\ promise' = Resolve(promise, Head(timers))
    /\ timers' = Tail(timers)
    /\ UNCHANGED <<now, tokenFile, redirectPath, pc, call, authFlow, nonce, lastReq,
                   nreq, goodCodes, runVars>>

(* authenticate() resumes once the promise of startAuthServer has settled: *)
(* a rejection leaves authenticate, a code goes to exchangeCodeForToken.   *)
AuthContinue ==
    /\ pc = "awaitCallback"
    /\ promise.status \in {"resolved", "rejected"}
    /\ IF promise.status = "rejected"
       THEN /\ pc' = "aborted"
            /\ failures' = failures \cup {Failure("authenticate", promise.value)}
            /\ UNCHANGED <<tokenFile, call, authFlow>>
       ELSE \E resp \in TokenResponses :
              LET r == ExchangeCodeForToken(tokenFile, now, resp)
              IN  /\ call' = Call("exchangeCodeForToken", tokenFile, now, resp, r)
                  /\ tokenFile' = r.file
                  /\ authFlow' = Append(authFlow,
                                        Did("exchangeCodeForToken", promise.value, r.err))
                  /\ pc' = IF r.ok THEN "extract" ELSE "aborted"
                  /\ failures' = IF r.ok THEN failures
                                 ELSE failures \cup {Failure("authenticate", r.err)}
    /\ UNCHANGED <<now, redirectPath, authVars, link, pure, conversationId, conversation,
                   done, inFlight, attempts, attachmentPaths, files, markdown, summary, metadata>>

AnyRequest == Request(AllRequests, MaxRequests)
CallbackRequest == Request(CallbackRequests, MaxCallbacks)

(* a catch block that reports the error and forgets process.exit(1): the  *)
(* command returns as after a complete run                                 *)
Abort_NoExit(step, kind) ==
    /\ pc' = "success"
    /\ failures' = failures \cup {Failure(step, kind)}

(* the catch block of downloadConversation: report, process.exit(1) *)
Abort(step, kind) ==
    /\ pc' = "aborted"
    /\ failures' = failures \cup {Failure(step, kind)}

(* const conversationId = client.extractConversationId(link) *)
Extract ==
    /\ pc = "extract"
    /\ LET r == ExtractConversationId(link)
       IN  IF r.ok
           THEN /\ conversationId' = r.id
                /\ pc' = "fetch"
                /\ UNCHANGED failures
           ELSE /\ Abort("extract", "UnrecognizedConversationReference")
                /\ UNCHANGED conversationId
    /\ UNCHANGED <<now, tokenFile, redirectPath, call, authFlow, authVars, link, pure,
                   conversation, done, inFlight, attempts, attachmentPaths, files, markdown, summary,
                   metadata>>

(* HelpScoutClient.request: the token, then the GET *)
ApiRequest(file, t, tokenResp, apiOk) ==
    LET r == GetValidToken(file, t, tokenResp)
    IN  IF ~r.ok THEN [ok |-> FALSE, err |-> r.err, token |-> r]
        ELSE IF ~apiOk THEN [ok |-> FALSE, err |-> "ApiError", token |-> r]
        ELSE [ok |-> TRUE, err |-> "none", token |-> r]

(* getConversation, then the directories and the count of the attachments, *)
(* up to the first download                                                *)
FetchConversation ==
    /\ pc = "fetch"
    /\ \E tokenResp \in TokenResponses, apiOk \in BOOLEAN, conv \in Conversations,
          mkdirOk \in BOOLEAN :
         LET q == ApiRequest(tokenFile, now, tokenResp, apiOk)
             totalAttachments == CountAttachments(ThreadsOf(conv))
         IN  /\ call' = Call("getValidToken", tokenFile, now, tokenResp, q.token)
             /\ tokenFile' = q.token.file
             /\ IF ~q.ok
                THEN /\ Abort("fetch", q.err)
                     /\ UNCHANGED conversation
                ELSE /\ conversation' = conv
                     /\ IF ~mkdirOk
                        THEN Abort("mkdir", "WriteFailed")
                        ELSE /\ pc' = IF totalAttachments > 0 THEN "attachments"
                                      ELSE "render"
                             /\ UNCHANGED failures
    /\ UNCHANGED <<now, redirectPath, authFlow, authVars, link, pure, conversationId, done, inFlight,
                   attempts, attachmentPaths, files, markdown, summary, metadata>>

(* HelpScoutClient.downloadAttachment *)
DownloadAttachment(file, t, att, tokenResp, downloadOk) ==
    IF ~att.link
    THEN [ok |-> FALSE, err |-> "NoDownloadLinkAvailable", called |-> FALSE,
          token |-> Threw("none", file, <<>>)]
    ELSE LET r == GetValidToken(file, t, tokenResp)
         IN  IF ~r.ok THEN [ok |-> FALSE, err |-> r.err, called |-> TRUE, token |-> r]
             ELSE IF ~downloadOk
             THEN [ok |-> FALSE, err |-> "AttachmentDownloadFailed", called |-> TRUE,
                   token |-> r]
             ELSE [ok |-> TRUE, err |-> "none", called |-> TRUE, token |-> r]

(* attachmentPaths.set(key, path) *)
MapSet(map, key, path) ==
    {e \in map : e.key # key} \cup {[key |-> key, path |-> path]}

(* an inner catch block that rethrows what it caught *)
AttemptOutcome_Rethrow(d, writeOk) ==
    IF ~d.ok THEN [stored |-> FALSE, err |-> d.err, fatal |-> TRUE]
    ELSE IF ~writeOk THEN [stored |-> FALSE, err |-> "WriteFailed", fatal |-> TRUE]
    ELSE [stored |-> TRUE, err |-> "none", fatal |-> FALSE]

(* what one iteration of the inner loop leaves behind: the try block runs  *)
(* to its end, or the catch block logs the error; either way the loop goes *)
(* on with the next attachment                                             *)
AttemptOutcome(d, writeOk) ==
    IF ~d.ok THEN [stored |-> FALSE, err |-> d.err, fatal |-> FALSE]
    ELSE IF ~writeOk THEN [stored |-> FALSE, err |-> "WriteFailed", fatal |-> FALSE]
    ELSE [stored |-> TRUE, err |-> "none", fatal |-> FALSE]

(* a loop body that does not await its download before the next iteration *)
Awaited_FireAndForget(flying) == TRUE

(* `await client.downloadAttachment(attachment)`: the loop goes on only    *)
(* when the download it began has ended                                    *)
Awaited(flying) == flying = {}

(* an iteration of `for (const attachment of attachments)` begins: the     *)
(* names are built and downloadAttachment is called                        *)
StartDownload ==
    /\ pc = "attachments"
    /\ Awaited(inFlight)
    /\ LET order == DownloadOrder(ThreadsOf(conversation))
           n == done + Cardinality(inFlight) + 1
       IN  /\ n <= Len(order)
           /\ inFlight' = inFlight \cup {PathKey(order[n].tid, order[n].att.id)}
    /\ UNCHANGED <<now, tokenFile, redirectPath, pc, call, authFlow, authVars, link, pure,
                   conversationId, conversation, done, attempts, attachmentPaths, files,
                   markdown, summary, metadata, failures>>

(* the iteration ends: the download has answered, the file is written and  *)
(* the index updated, or the catch block has logged the error              *)
Attachment ==
    /\ pc = "attachments"
    /\ inFlight # {}
    /\ \E tokenResp \in TokenResponses, downloadOk \in BOOLEAN, writeOk \in BOOLEAN :
         LET order == DownloadOrder(ThreadsOf(conversation))
             e == order[done + 1]
             uniqueFilename == UniqueFilename(e.tid, e.att.id, e.att.filename)
             key == PathKey(e.tid, e.att.id)
             d == DownloadAttachment(tokenFile, now, e.att, tokenResp, downloadOk)
             o == AttemptOutcome(d, writeOk)
         IN  /\ call' = IF d.called
                         THEN Call("getValidToken", tokenFile, now, tokenResp, d.token)
                         ELSE call
             /\ tokenFile' = d.token.file
             /\ attempts' = Append(attempts, [key |-> key, err |-> o.err])
             /\ inFlight' = inFlight \ {key}
             /\ files' = IF o.stored
                          THEN Append(files, <<"attachments", "/">> \o uniqueFilename)
                          ELSE files
             /\ attachmentPaths' =
                    IF o.stored
                    THEN MapSet(attachmentPaths, key,
                                <<".", "/", "attachments", "/">> \o uniqueFilename)
                    ELSE attachmentPaths
             /\ IF o.fatal
                THEN /\ Abort("attachment", o.err)
                     /\ UNCHANGED done
                ELSE /\ done' = done + 1
                     /\ pc' = IF done + 1 = Len(order) THEN "render" ELSE "attachments"
                     /\ failures' = IF o.err = "none" THEN failures
                                    ELSE failures \cup {Failure("attachment", o.err)}
    /\ UNCHANGED <<now, redirectPath, authFlow, authVars, link, pure, conversationId,
                   conversation, markdown, summary, metadata>>

(* formatThread looking the path up under `${attachment.id}-${thread.id}` *)
FormatAttachments_SwappedKey(thread, paths) ==
    LET as == AttachmentsOf(thread)
    IN  [i \in 1..Len(as) |->
            LET hit == {e \in paths : e.key = PathKey(as[i].id, thread.id)}
            IN  IF hit # {}
                THEN [filename |-> as[i].filename, linked |-> TRUE,
                      path |-> (CHOOSE e \in hit : TRUE).path]
                ELSE [filename |-> as[i].filename, linked |-> FALSE, path |-> <<>>]]

(* formatThread: the attachment list of one thread *)
FormatAttachments(thread, paths) ==
    LET as == AttachmentsOf(thread)
    IN  [i \in 1..Len(as) |->
            LET hit == {e \in paths : e.key = PathKey(thread.id, as[i].id)}
            IN  IF hit # {}
                THEN [filename |-> as[i].filename, linked |-> TRUE,
                      path |-> (CHOOSE e \in hit : TRUE).path]
                ELSE [filename |-> as[i].filename, linked |-> FALSE, path |-> <<>>]]

(* conversationToMarkdown: the attachment entries, thread by thread *)
RECURSIVE RenderThreads(_, _)
RenderThreads(threads, paths) ==
    IF threads = <<>> THEN <<>>
    ELSE FormatAttachments(Head(threads), paths) \o RenderThreads(Tail(threads), paths)

ConversationToMarkdown(conv, paths) == RenderThreads(ThreadsOf(conv), paths)

(* the transcript is rendered and written *)
WriteMarkdown ==
    /\ pc = "render"
    /\ markdown' = ConversationToMarkdown(conversation, attachmentPaths)
    /\ summary' = CalculateThreadStatistics(ThreadsOf(conversation))
    /\ \E writeOk \in BOOLEAN :
         IF writeOk
         THEN /\ files' = Append(files, <<"conversation_">> \o conversationId \o <<".md">>)
              /\ pc' = "metadata"
              /\ UNCHANGED failures
         ELSE /\ Abort("markdown", "WriteFailed")
              /\ UNCHANGED files
    /\ UNCHANGED <<now, tokenFile, redirectPath, call, authFlow, authVars, link, pure,
                   conversationId, conversation, done, inFlight, attempts, attachmentPaths,
                   metadata>>

(* metadata.json is written; the run ends *)
WriteMetadata ==
    /\ pc = "metadata"
    /\ \E writeOk \in BOOLEAN :
         IF writeOk
         THEN /\ files' = Append(files, <<"metadata.json">>)
              /\ metadata' = [written |-> TRUE,
                              attachmentCount |-> CountAttachments(ThreadsOf(conversation))]
              /\ pc' = "success"
              /\ UNCHANGED failures
         ELSE /\ Abort("metadata", "WriteFailed")
              /\ UNCHANGED <<files, metadata>>
    /\ UNCHANGED <<now, tokenFile, redirectPath, call, authFlow, authVars, link, pure,
                   conversationId, conversation, done, inFlight, attempts, attachmentPaths,
                   markdown, summary>>

(* authenticate() alone, with every request the listener may receive *)
NextAuth == Tick \/ Authenticate \/ AnyRequest \/ TimerFire \/ AuthContinue

InitAuth == Init /\ link = <<"1", "2">>

SpecAuth == InitAuth /\ [][NextAuth]_vars

(* one run of `argus conversations download <link>` *)
Next ==
    \/ Tick \/ Authenticate \/ CallbackRequest \/ TimerFire \/ AuthContinue
    \/ Extract \/ FetchConversation \/ StartDownload \/ Attachment
    \/ WriteMarkdown \/ WriteMetadata

InitRun == Init /\ redirectPath = "/auth"

Spec == InitRun /\ [][Next]_vars

----------------------------------------------------------------------------
(* The helpers called on their own, each on every argument of a bounded set *)

(* client.extractConversationId(link) *)
ApplyExtractConversationId ==
    /\ pure.fn = "extractConversationId" /\ ~pure.applied
    /\ pure' = [pure EXCEPT !.applied = TRUE, !.out = ExtractConversationId(pure.arg)]
    /\ UNCHANGED <<now, tokenFile, redirectPath, pc, call, authFlow, authVars, link,
                   conversationId, conversation, done, inFlight, attempts,
                   attachmentPaths, files, markdown, summary, metadata, failures>>

(* client.extractConversationId(id) on the id a first call returned *)
ReapplyExtractConversationId ==
    /\ pure.fn = "extractConversationId" /\ pure.applied /\ pure.out.ok
    /\ ~pure.again.applied
    /\ pure' = [pure EXCEPT !.again = [applied |-> TRUE,
                                       out |-> ExtractConversationId(pure.out.id)]]
    /\ UNCHANGED <<now, tokenFile, redirectPath, pc, call, authFlow, authVars, link,
                   conversationId, conversation, done, inFlight, attempts,
                   attachmentPaths, files, markdown, summary, metadata, failures>>

(* cleanHtml(thread.body) *)
ApplyCleanHtml ==
    /\ pure.fn = "cleanHtml" /\ ~pure.applied
    /\ pure' = [pure EXCEPT !.applied = TRUE, !.out = CleanHtml(pure.arg)]
    /\ UNCHANGED <<now, tokenFile, redirectPath, pc, call, authFlow, authVars, link,
                   conversationId, conversation, done, inFlight, attempts,
                   attachmentPaths, files, markdown, summary, metadata, failures>>

(* calculateThreadStatistics(threads) *)
ApplyCalculateThreadStatistics ==
    /\ pure.fn = "calculateThreadStatistics" /\ ~pure.applied
    /\ pure' = [pure EXCEPT !.applied = TRUE, !.out = CalculateThreadStatistics(pure.arg)]
    /\ UNCHANGED <<now, tokenFile, redirectPath, pc, call, authFlow, authVars, link,
                   conversationId, conversation, done, inFlight, attempts,
                   attachmentPaths, files, markdown, summary, metadata, failures>>

(* sanitizeFilename(attachment.filename) *)
ApplySanitizeFilename ==
    /\ pure.fn = "sanitizeFilename" /\ ~pure.applied
    /\ pure' = [pure EXCEPT !.applied = TRUE, !.out = SanitizeFilename(pure.arg)]
    /\ UNCHANGED <<now, tokenFile, redirectPath, pc, call, authFlow, authVars, link,
                   conversationId, conversation, done, inFlight, attempts,
                   attachmentPaths, files, markdown, summary, metadata, failures>>

(* the names the download loop gives to the attachments of a list, all of  *)
(* them downloaded and written: the files in order and the path index      *)
RECURSIVE StoreAll(_, _, _)
StoreAll(entries, written, index) ==
    IF entries = <<>> THEN [files |-> written, index |-> index]
    ELSE LET e == Head(entries)
             uniqueFilename == UniqueFilename(e.tid, e.att.id, e.att.filename)
         IN  StoreAll(Tail(entries),
                      Append(written, <<"attachments", "/">> \o uniqueFilename),
                      MapSet(index, PathKey(e.tid, e.att.id),
                             <<".", "/", "attachments", "/">> \o uniqueFilename))

(* the download loop over two attachments, every download and write a     *)
(* success                                                                 *)
ApplyStoreAll ==
    /\ pure.fn = "storeAll" /\ ~pure.applied
    /\ pure' = [pure EXCEPT !.applied = TRUE, !.out = StoreAll(pure.arg, <<>>, {})]
    /\ UNCHANGED <<now, tokenFile, redirectPath, pc, call, authFlow, authVars, link,
                   conversationId, conversation, done, inFlight, attempts,
                   attachmentPaths, files, markdown, summary, metadata, failures>>

(* the helpers and the arguments each is called with *)
PureFunctions ==
    {"extractConversationId", "cleanHtml", "calculateThreadStatistics", "sanitizeFilename",
     "storeAll"}
ArgumentsOf(fn) ==
    IF fn = "extractConversationId" THEN LinkArguments
    ELSE IF fn = "cleanHtml" THEN ThreadBodies
    ELSE IF fn = "calculateThreadStatistics" THEN ThreadLists
    ELSE IF fn = "sanitizeFilename" THEN Filenames
    ELSE TwinLists

InitPure ==
    /\ now = 0
    /\ tokenFile = NoFile
    /\ redirectPath = "/auth"
    /\ pc = "authenticate"
    /\ call = NoCall
    /\ authFlow = <<>>
    /\ server = "unbound"
    /\ nonce = NullParam
    /\ promise = [status |-> "none", value |-> Undef]
    /\ timers = <<>>
    /\ lastReq = NoReq
    /\ nreq = 0
    /\ goodCodes = {}
    /\ link = <<"1", "2">>
    /\ conversationId = <<>>
    /\ conversation = NoConversation
    /\ done = 0
    /\ attempts = <<>>
    /\ attachmentPaths = {}
    /\ files = <<>>
    /\ markdown = <<>>
    /\ metadata = [written |-> FALSE, attachmentCount |-> 0]
    /\ failures = {}
    /\ inFlight = {}
    /\ summary = NoSummary
    /\ \E fn \in PureFunctions : \E arg \in ArgumentsOf(fn) : pure = PureCall(fn, arg)

NextPure ==
    \/ ApplyExtractConversationId \/ ReapplyExtractConversationId
    \/ ApplyCleanHtml
    \/ ApplyCalculateThreadStatistics
    \/ ApplySanitizeFilename
    \/ ApplyStoreAll

SpecPure == InitPure /\ [][NextPure]_vars

----------------------------------------------------------------------------
(* Properties *)

(* the last call was getValidToken and found a record loadTokens accepts *)
GotRecord == call.fn = "getValidToken" /\ LoadTokens(call.before).some
Fresh == call.at < call.before.data.expires_at - ExpiryMarginMs
Requests(trace) == Len(SelectSeq(trace, LAMBDA e : e # "save"))

(* C1: for a persisted token record with now < expires_at - 60000 ms,      *)
(* getValidToken returns that record's access_token, sends no request to   *)
(* the token endpoint and leaves the token file as it is.                  *)
C1_FreshTokenIsReturnedWithoutRequest ==
    (GotRecord /\ Fresh) =>
        /\ call.res.ok
        /\ call.res.value = call.before.data.access_token
        /\ call.res.trace = <<>>
        /\ call.res.file = call.before

C1_Witness ==
    /\ GotRecord /\ Fresh /\ call.res.ok
    /\ call.at > 0
    /\ pc = "attachments"

(* C2 as stated: for every persisted token record with                     *)
(* now >= expires_at - 60000 ms, one getValidToken sends exactly one       *)
(* refresh_token request.                                                  *)
C2_AsStated ==
    (GotRecord /\ ~Fresh) => Requests(call.res.trace) = 1

(* C2 amended: for a persisted token record with now >= expires_at - 60000 *)
(* ms, getValidToken sends exactly one refresh_token request when the      *)
(* record's refresh_token is not empty, and none (it fails) when it is     *)
(* empty; when the request succeeds the new record, with expires_at        *)
(* computed from the clock, is in the token file before getValidToken      *)
(* returns, and what it returns is the access_token of that record.        *)
C2_StaleTokenIsRefreshedOnce ==
    (GotRecord /\ ~Fresh) =>
        /\ call.before.data.refresh_token # "" =>
              /\ call.asked
              /\ Requests(call.res.trace) = 1
              /\ Head(call.res.trace) = "POST refresh_token"
              /\ call.answer.ok =>
                    /\ call.res.ok
                    /\ call.res.trace = <<"POST refresh_token", "save">>
                    /\ call.res.file = SaveTokens(WithExpiresAt(call.answer.data, call.at))
                    /\ tokenFile = call.res.file
                    /\ call.res.value = call.answer.data.access_token
        /\ call.before.data.refresh_token = "" =>
              ~call.res.ok /\ call.res.trace = <<>> /\ call.res.file = call.before

C2_Witness ==
    /\ GotRecord /\ ~Fresh
    /\ call.at = call.before.data.expires_at - ExpiryMarginMs
    /\ call.answer.ok /\ call.res.ok
    /\ tokenFile # call.before

(* C3: with no token record persisted, getValidToken fails with            *)
(* Unauthenticated, sends no request and writes nothing to the token file. *)
C3_NoRecordIsUnauthenticated ==
    (call.fn = "getValidToken" /\ ~call.before.exists) =>
        /\ ~call.res.ok
        /\ call.res.err = "Unauthenticated"
        /\ call.res.trace = <<>>
        /\ call.res.file = call.before
        /\ ~tokenFile.exists

C3_Witness ==
    call.fn = "getValidToken" /\ ~call.before.exists /\ ~call.res.ok

(* C4: when the token endpoint answers non-2xx, exchangeCodeForToken and   *)
(* refreshAccessToken fail after that one request (no retry), the token    *)
(* file is left exactly as it was before the call, and getValidToken in    *)
(* its refresh branch fails without returning an access token.             *)
C4_Non2xxFailsWithoutRetryOrWrite ==
    (call.asked /\ ~call.answer.ok) =>
        /\ ~call.res.ok
        /\ call.res.value = Undef
        /\ Len(call.res.trace) = 1
        /\ call.res.file = call.before
        /\ tokenFile = call.before
        /\ call.fn = "exchangeCodeForToken" => call.res.err = "TokenExchangeFailed"
        /\ call.fn = "getValidToken" =>
              call.res.err = "ReauthenticationRequired" /\ GotRecord /\ ~Fresh

C4_Witness ==
    /\ call.fn = "getValidToken" /\ call.asked /\ ~call.answer.ok
    /\ call.before.exists /\ tokenFile = call.before

InAuthFlow(fn) == \E i \in 1..Len(authFlow) : authFlow[i].fn = fn

(* C5 as stated: authenticate starts the interactive flow exactly when     *)
(* getValidToken failed with Unauthenticated; when it failed with          *)
(* ReauthenticationRequired, authenticate fails with that error and the    *)
(* callback listener is never started.                                     *)
C5_AsStated ==
    authFlow # <<>> =>
        /\ InAuthFlow("startAuthServer") <=> authFlow[1].err = "Unauthenticated"
        /\ authFlow[1].err = "ReauthenticationRequired" =>
              /\ server = "unbound"
              /\ pc = "aborted"
              /\ Failure("authenticate", "ReauthenticationRequired") \in failures

(* C5 amended: authenticate starts the interactive flow (startAuthServer,  *)
(* then exchangeCodeForToken with the code it resolved with) exactly when  *)
(* getValidToken failed, with Unauthenticated or ReauthenticationRequired  *)
(* alike: a failed refresh does not make authenticate fail, it starts the  *)
(* callback listener too.                                                  *)
C5_AnyTokenFailureStartsInteractiveFlow ==
    authFlow # <<>> =>
        /\ authFlow[1].fn = "getValidToken"
        /\ InAuthFlow("startAuthServer") <=> authFlow[1].err # "none"
        /\ authFlow[1].err # "none" =>
              /\ authFlow[2].fn = "startAuthServer"
              /\ server # "unbound"
              /\ Failure("authenticate", authFlow[1].err) \notin failures
        /\ authFlow[1].err = "none" => authFlow = <<authFlow[1]>> /\ server = "unbound"
        /\ InAuthFlow("exchangeCodeForToken") =>
              /\ Len(authFlow) = 3
              /\ authFlow[3].fn = "exchangeCodeForToken"
              /\ authFlow[3].arg = promise.value

C5_Witness ==
    /\ authFlow # <<>>
    /\ authFlow[1].err = "ReauthenticationRequired"
    /\ InAuthFlow("exchangeCodeForToken")
    /\ pc = "extract"

(* C6: startAuthServer resolves with a code only if a callback (a request  *)
(* at the handler's callback path, /auth) delivered that code together     *)
(* with the session's state; a callback whose state differs rejects with   *)
(* CsrfStateMismatch even when it carries a code, one with the right state *)
(* and no code rejects with MissingAuthorizationCode, and after a          *)
(* rejection no code reaches exchangeCodeForToken.                         *)
C6_CodeOnlyFromCallbackWithSessionState ==
    /\ promise.status = "resolved" => promise.value \in goodCodes
    /\ (lastReq.path = "/auth" /\ lastReq.state # nonce) =>
          promise = [status |-> "rejected", value |-> "CsrfStateMismatch"]
    /\ (lastReq.path = "/auth" /\ lastReq.state = nonce
          /\ lastReq.code \in {NullParam, ""}) =>
          promise = [status |-> "rejected", value |-> "MissingAuthorizationCode"]
    /\ promise.status = "rejected" => ~InAuthFlow("exchangeCodeForToken")
    /\ \A i \in 1..Len(authFlow) :
          authFlow[i].fn = "exchangeCodeForToken" => authFlow[i].arg \in goodCodes

C6_Witness ==
    /\ lastReq.path = "/auth" /\ lastReq.state # nonce /\ lastReq.code \in Codes
    /\ promise.status = "rejected"
    /\ pc = "aborted"

(* C7 as stated: the listener is torn down at once by any request it       *)
(* answers, a callback or not: it is never bound after answering one.      *)
C7_AsStated ==
    lastReq.status # 0 => server # "listening"

(* C7 amended: the listener is torn down at once by an erroneous callback  *)
(* (state mismatch or missing code); after a successful callback it stays  *)
(* bound until the timer armed by the handler fires, and a request to any  *)
(* other path is answered 404 and leaves it bound.  Once the promise has   *)
(* settled the listener is no longer bound.                                *)
C7_ListenerStopsOnCallbackOutcome ==
    /\ lastReq.status = 400 => server = "stopped"
    /\ promise.status \in {"resolved", "rejected"} => server = "stopped"
    /\ (server = "listening" /\ lastReq.status = 200) => timers # <<>>
    /\ (server = "listening" /\ goodCodes # {}) => timers # <<>>
    /\ (lastReq.status = 404 /\ goodCodes = {}) =>
          server = "listening" /\ promise.status = "pending"

C7_Witness ==
    /\ lastReq.status = 400
    /\ lastReq.state = nonce
    /\ server = "stopped"
    /\ nreq = 2

(* the keys of the attachments in the order of the two loops *)
KeysInOrder(conv) ==
    LET order == DownloadOrder(ThreadsOf(conv))
    IN  [i \in 1..Len(order) |-> PathKey(order[i].tid, order[i].att.id)]

AttachmentFailures == {f \in failures : f.step = "attachment"}
MarkdownFile == <<"conversation_">> \o conversationId \o <<".md">>
Written(file) == \E i \in 1..Len(files) : files[i] = file

(* C9: a failed attachment download (no download link, non-2xx answer)     *)
(* never aborts the run: every attachment is attempted, once and in order, *)
(* whatever happened to the ones before it; a run that aborts has failed   *)
(* at another step; a run that ends well has written the transcript and    *)
(* metadata.json, whose attachmentCount is the number of attachments of    *)
(* all threads, however many were downloaded.                              *)
C9_AttachmentFailureIsNotFatal ==
    /\ pc = "aborted" => failures \ AttachmentFailures # {}
    /\ pc = "attachments" =>
          /\ done < Len(KeysInOrder(conversation))
          /\ failures = AttachmentFailures
    /\ pc \in {"attachments", "render", "metadata", "success"} =>
          /\ Len(attempts) = done
          /\ \A i \in 1..Len(attempts) : attempts[i].key = KeysInOrder(conversation)[i]
    /\ pc \in {"render", "metadata", "success"} =>
          Len(attempts) = Len(KeysInOrder(conversation))
    /\ pc = "success" =>
          /\ Written(MarkdownFile)
          /\ Written(<<"metadata.json">>)
          /\ metadata.written
          /\ metadata.attachmentCount = Len(KeysInOrder(conversation))

C9_Witness ==
    /\ pc = "success"
    /\ Len(attempts) = 3
    /\ attempts[1].err = "AttachmentDownloadFailed"
    /\ attempts[2].err = "NoDownloadLinkAvailable"
    /\ attempts[3].err = "none"
    /\ metadata.attachmentCount = 3

AuthenticationErrors ==
    {"Unauthenticated", "ReauthenticationRequired", "CsrfStateMismatch",
     "MissingAuthorizationCode", "TokenExchangeFailed"}

(* a failure the claim calls fatal: authentication at any step, the fetch  *)
(* of the conversation, the write of the transcript or of metadata.json    *)
FatalByClaim(f) ==
    \/ f.kind \in AuthenticationErrors
    \/ f.step = "fetch"
    \/ f.step \in {"markdown", "metadata"}

(* the steps after the one that failed have left no trace *)
NothingAfter(step) ==
    /\ step \in {"authenticate", "extract", "fetch"} =>
          conversation = NoConversation /\ attempts = <<>> /\ files = <<>>
    /\ step = "authenticate" => conversationId = <<>>
    /\ step = "mkdir" => attempts = <<>> /\ files = <<>>
    /\ step \in {"mkdir", "markdown"} => ~Written(MarkdownFile)
    /\ ~metadata.written /\ ~Written(<<"metadata.json">>)

(* C10 as stated: every authentication failure, at whichever step, also    *)
(* while an attachment is being downloaded, every failure of the fetch and *)
(* of the transcript and metadata writes aborts the run.                   *)
C10_AsStated ==
    \A f \in failures : FatalByClaim(f) => pc = "aborted"

(* C10 amended: every failure of authenticate, of the fetch of the         *)
(* conversation (its token included) and of the transcript and metadata    *)
(* writes is fatal: no later step runs and the run ends aborted, never in  *)
(* success.  A failure to obtain a valid token while an attachment is      *)
(* being downloaded is not fatal: it is caught like every other failure of *)
(* that attachment and the run goes on.                                    *)
C10_FailuresOutsideTheLoopAreFatal ==
    /\ \A f \in failures \ AttachmentFailures : pc = "aborted" /\ NothingAfter(f.step)
    /\ Cardinality(failures \ AttachmentFailures) <= 1
    /\ pc = "aborted" <=> failures \ AttachmentFailures # {}
    /\ pc = "success" => failures = AttachmentFailures

C10_Witness ==
    /\ pc = "aborted"
    /\ Failure("fetch", "ReauthenticationRequired") \in failures
    /\ InAuthFlow("exchangeCodeForToken")

(* a token failure inside the loop, and the run went on to its end *)
C10_TokenFailureInLoop ==
    /\ pc = "success"
    /\ \E f \in AttachmentFailures : f.kind \in AuthenticationErrors

(* C8: a callback arriving at the path of the configured redirect URI with *)
(* the session's state and a code is treated as the OAuth callback.        *)
C8_CallbackAtConfiguredPath ==
    (lastReq.path = redirectPath /\ lastReq.state = nonce /\ lastReq.code \in Codes) =>
        /\ lastReq.status = 200
        /\ promise.status = "resolved" \/ timers # <<>>

----------------------------------------------------------------------------
(* the transcript has been rendered *)
Rendered ==
    \/ pc \in {"metadata", "success"}
    \/ \E f \in failures : f.step \in {"markdown", "metadata"}

IndexKeys == {e.key : e \in attachmentPaths}
Succeeded(key) ==
    \E i \in 1..Len(attempts) : attempts[i].key = key /\ attempts[i].err = "none"

(* C11: at every point of a run the path index holds the key of an         *)
(* attachment if and only if its download and its file write succeeded     *)
(* (the file is then on disk and the index holds its relative path); an    *)
(* attachment without a download link is never in the index; the rendered  *)
(* transcript links an attachment exactly when its key is in the index and *)
(* shows the bare filename otherwise.                                      *)
C11_IndexHoldsExactlyTheWrittenAttachments ==
    LET order == DownloadOrder(ThreadsOf(conversation))
        KeyOf(i) == PathKey(order[i].tid, order[i].att.id)
        FileOf(i) == <<"attachments", "/">>
                     \o UniqueFilename(order[i].tid, order[i].att.id, order[i].att.filename)
    IN  /\ IndexKeys \subseteq {KeyOf(i) : i \in 1..Len(order)}
        /\ \A i \in 1..Len(order) :
              /\ KeyOf(i) \in IndexKeys <=> Succeeded(KeyOf(i))
              /\ KeyOf(i) \in IndexKeys <=> Written(FileOf(i))
              /\ KeyOf(i) \in IndexKeys =>
                    [key |-> KeyOf(i), path |-> <<".", "/">> \o FileOf(i)] \in attachmentPaths
              /\ ~order[i].att.link => KeyOf(i) \notin IndexKeys
        /\ Cardinality(attachmentPaths) = Cardinality(IndexKeys)
        /\ IF Rendered
           THEN /\ Len(markdown) = Len(order)
                /\ \A i \in 1..Len(order) :
                      /\ markdown[i].filename = order[i].att.filename
                      /\ markdown[i].linked <=> KeyOf(i) \in IndexKeys
                      /\ markdown[i].linked =>
                            markdown[i].path = <<".", "/">> \o FileOf(i)
           ELSE markdown = <<>>

(* a transcript with a linked attachment of a second thread, a bare one    *)
(* that has no link and a bare one whose download failed                   *)
C11_Witness ==
    /\ pc = "success"
    /\ Len(markdown) = 3
    /\ ~markdown[1].linked /\ attempts[1].err = "AttachmentDownloadFailed"
    /\ ~markdown[2].linked /\ attempts[2].err = "NoDownloadLinkAvailable"
    /\ markdown[3].linked /\ PathKey(12, 3) \in IndexKeys

----------------------------------------------------------------------------
(* the two orders in which a field and its embedded twin can be consulted *)
DirectFirst(direct, embedded) ==
    IF direct.has THEN direct.items ELSE IF embedded.has THEN embedded.items ELSE <<>>
EmbeddedFirst(direct, embedded) ==
    IF embedded.has THEN embedded.items ELSE IF direct.has THEN direct.items ELSE <<>>

(* the attachments of a list of threads, thread by thread, as [tid, att] *)
RECURSIVE Flatten(_)
Flatten(perThread) ==
    IF perThread = <<>> THEN <<>>
    ELSE LET h == Head(perThread)
         IN  [j \in 1..Len(h.atts) |-> [tid |-> h.tid, att |-> h.atts[j]]]
             \o Flatten(Tail(perThread))

(* what the run shows of its lookups: the orchestrator's attempts and      *)
(* attachmentCount, the statistics' totals, the renderer's entries; they   *)
(* are those of the threads ts whose attachments are atts                  *)
LookupsAre(ts, atts) ==
    LET flat == Flatten([i \in 1..Len(ts) |-> [tid |-> ts[i].id, atts |-> atts[i]]])
    IN  /\ pc \in {"render", "metadata", "success"} =>
              /\ Len(attempts) = Len(flat)
              /\ \A i \in 1..Len(flat) :
                    attempts[i].key = PathKey(flat[i].tid, flat[i].att.id)
        /\ metadata.written => metadata.attachmentCount = Len(flat)
        /\ Rendered =>
              /\ summary.totalThreads = Len(ts)
              /\ summary.totalAttachments = Len(flat)
              /\ Len(markdown) = Len(flat)
              /\ \A i \in 1..Len(flat) : markdown[i].filename = flat[i].att.filename

----------------------------------------------------------------------------
AllDigits(s) == s # <<>> /\ \A i \in 1..Len(s) : s[i] \in Digit

(* the positions of s where lit stands directly before a digit *)
Occurrences(s, lit) ==
    {i \in 1..Len(s) : /\ LiteralAt(s, i, lit)
                       /\ i + Len(lit) <= Len(s)
                       /\ s[i + Len(lit)] \in Digit}

(* the digits of s from position i up to the next character that is none *)
DigitsFrom(s, i) ==
    LET end == CHOOSE j \in i..Len(s) :
                  /\ \A k \in i..j : s[k] \in Digit
                  /\ j = Len(s) \/ s[j + 1] \notin Digit
    IN  SubSeq(s, i, end)

ConversationSlash == <<"conversation", "/">>
ConversationsSlash == <<"conversation", "s", "/">>

(* a URL segment /conversation/<id> or /conversations/<id>: the literal    *)
(* with a slash before it, at position i                                   *)
IsSegment(s, i, lit) ==
    i \in Occurrences(s, lit) /\ i > 1 /\ s[i - 1] \in {"/", "https://host/"}

ExtractCalled == pure.fn = "extractConversationId" /\ pure.applied

(* C13 as stated: a bare numeric string is returned unchanged; a URL that  *)
(* contains a segment /conversation/<id> or /conversations/<id> gives the  *)
(* digits that follow it; every other input fails; the function is         *)
(* idempotent.                                                             *)
C13_AsStated ==
    ExtractCalled =>
        LET ref == pure.arg
            r == pure.out
            segments == {<<i, lit>> \in (1..Len(ref)) \X {ConversationSlash, ConversationsSlash} :
                            IsSegment(ref, i, lit)}
        IN  /\ AllDigits(ref) => r = [ok |-> TRUE, id |-> ref]
            /\ segments # {} =>
                  /\ r.ok
                  /\ \E g \in segments : r.id = DigitsFrom(ref, g[1] + Len(g[2]))
            /\ (~AllDigits(ref) /\ segments = {}) => ~r.ok
            /\ pure.again.applied => pure.again.out = r

(* C13 amended: a bare numeric string is returned unchanged; an input in   *)
(* which the text conversation/ stands directly before a digit, with or    *)
(* without a slash before it and wherever in the input, gives the digits   *)
(* that follow its first such occurrence; failing that, the same holds for *)
(* the text conversations/; every other input fails; the function is       *)
(* idempotent.                                                             *)
C13_ExtractsFromUnanchoredPatterns ==
    ExtractCalled =>
        LET ref == pure.arg
            r == pure.out
            o1 == Occurrences(ref, ConversationSlash)
            o2 == Occurrences(ref, ConversationsSlash)
            First(o) == CHOOSE i \in o : \A j \in o : i <= j
        IN  /\ AllDigits(ref) => r = [ok |-> TRUE, id |-> ref]
            /\ o1 # {} =>
                  r = [ok |-> TRUE, id |-> DigitsFrom(ref, First(o1) + Len(ConversationSlash))]
            /\ (o1 = {} /\ o2 # {}) =>
                  r = [ok |-> TRUE, id |-> DigitsFrom(ref, First(o2) + Len(ConversationsSlash))]
            /\ (~AllDigits(ref) /\ o1 = {} /\ o2 = {}) => r = [ok |-> FALSE, id |-> <<>>]
            /\ r.ok => AllDigits(r.id)
            /\ pure.again.applied => pure.again.out = r

(* the id of a URL whose segment stands after another path element has     *)
(* been extracted and fed back                                             *)
C13_Witness ==
    /\ ExtractCalled
    /\ pure.arg = <<"https://host/", "conversation", "/", "1">>
    /\ pure.out = [ok |-> TRUE, id |-> <<"1">>]
    /\ pure.again.applied /\ pure.again.out = pure.out

----------------------------------------------------------------------------
(* the last OAuthManager call wrote the token file *)
Saved == \E i \in 1..Len(call.res.trace) : call.res.trace[i] = "save"

(* C14: every token record written to the token store, by code exchange or *)
(* by refresh, has expires_at = (time of the save) + expires_in * 1000,    *)
(* whatever fields, an expires_at of its own included, the response of the *)
(* token endpoint carried.                                                 *)
C14_WrittenExpiryIsComputedAtSave ==
    Saved =>
        /\ tokenFile = call.res.file
        /\ tokenFile.exists
        /\ "expires_at" \in tokenFile.data.fields
        /\ tokenFile.data.expires_at = call.at + tokenFile.data.expires_in * 1000

(* what holds of every write: the fields of the response other than        *)
(* expires_at are written as they came, a numeric expires_in gives the     *)
(* computed expires_at, and an expires_at of the server is never kept      *)
C14_ExpiryWhereExpiresInIsNumeric ==
    Saved =>
        LET w == tokenFile.data
            a == call.answer.data
        IN  /\ \A f \in TokenFieldNames \ {"expires_at"} : f \in w.fields <=> f \in a.fields
            /\ w.access_token = a.access_token /\ w.refresh_token = a.refresh_token
            /\ w.expires_in = a.expires_in
            /\ "expires_in" \in w.fields =>
                  "expires_at" \in w.fields /\ w.expires_at = call.at + w.expires_in * 1000
            /\ "expires_in" \notin w.fields => "expires_at" \notin w.fields

----------------------------------------------------------------------------
CleanHtmlCalled == pure.fn = "cleanHtml" /\ pure.applied

(* t occurs in s as a run of consecutive elements *)
Contains(s, t) == \E i \in 0..(Len(s) - Len(t)) : SubSeq(s, i + 1, i + Len(t)) = t

(* the positions of html where an anchor element <a href="H">T</a> starts *)
AnchorElements(html) ==
    {i \in 1..(Len(html) - 2) :
        html[i].k = "a" /\ html[i + 1] = HtmlText("T") /\ html[i + 2] = CloseAnchor}

(* C15: cleanHtml converts every anchor element <a href="H">T</a> into the *)
(* Markdown link [T](H), where H is the href of that anchor.               *)
C15_AnchorBecomesLinkToItsHref ==
    CleanHtmlCalled =>
        \A i \in AnchorElements(pure.arg) :
            Contains(pure.out, <<"[", "T", "]", "(", pure.arg[i].v, ")">>)

(* what the anchor rules do: the text in brackets, then the characters $1  *)
(* in parentheses, whatever the href                                       *)
C15_AnchorBecomesLinkToDollarOne ==
    CleanHtmlCalled =>
        /\ \A i \in AnchorElements(pure.arg) :
              Contains(pure.out, <<"[", "T", "]", "(", "$1", ")">>)
        /\ \A j \in 1..Len(pure.out) : pure.out[j] \notin {"H1", "H2"}

----------------------------------------------------------------------------
StatisticsCalled == pure.fn = "calculateThreadStatistics" /\ pure.applied

(* the latency as the claim prints it: days and hours from one day on,     *)
(* hours and minutes from one hour on, minutes otherwise                   *)
LatencyText(ms) ==
    LET mins == ms \div 60000
        hours == mins \div 60
        days == hours \div 24
    IN  IF days >= 1 THEN Plural(days, " day") \o <<" ">> \o Plural(hours % 24, " hour")
        ELSE IF hours >= 1 THEN Plural(hours, " hour") \o <<" ">> \o Plural(mins % 60, " minute")
        ELSE Plural(mins, " minute")

(* C16: the summary holds a first-response latency exactly when a customer *)
(* thread precedes a reply thread by createdAt; the latency is the time,   *)
(* never negative, from the first customer thread to the first reply       *)
(* thread after it, printed as days+hours, hours+minutes or minutes.       *)
C16_LatencyIsChronological ==
    StatisticsCalled =>
        LET ts == pure.arg
            r == pure.out.responseTime
            customers == {i \in 1..Len(ts) : IsCustomerThread(ts[i])}
            replies == {j \in 1..Len(ts) : IsSupportReply(ts[j])}
            pairs == {p \in customers \X replies : ts[p[1]].createdAt < ts[p[2]].createdAt}
        IN  /\ r.shown <=> pairs # {}
            /\ pairs # {} =>
                  LET c == CHOOSE i \in customers :
                              \A k \in customers : ts[i].createdAt <= ts[k].createdAt
                      after == {j \in replies : ts[j].createdAt > ts[c].createdAt}
                      a == CHOOSE j \in after :
                              \A k \in after : ts[j].createdAt <= ts[k].createdAt
                  IN  r.text = LatencyText(ts[a].createdAt - ts[c].createdAt)
            /\ r.shown => r.text[1] # "-"

(* what the code does: the first customer thread and the first reply after *)
(* it are those of the array's order, whatever their createdAt             *)
C16_LatencyFollowsArrayOrder ==
    StatisticsCalled =>
        LET ts == pure.arg
            r == pure.out.responseTime
            customers == {i \in 1..Len(ts) : IsCustomerThread(ts[i])}
            replies == {j \in 1..Len(ts) : IsSupportReply(ts[j])}
            pairs == {p \in customers \X replies : p[1] < p[2]}
        IN  /\ r.shown <=> pairs # {}
            /\ pairs # {} =>
                  LET c == CHOOSE i \in customers : \A k \in customers : i <= k
                      a == CHOOSE j \in replies : j > c /\ \A k \in replies : k > c => j <= k
                      ms == ts[a].createdAt - ts[c].createdAt
                  IN  r.text = IF ms >= 0 THEN LatencyText(ms)
                               ELSE Plural(ms \div 60000, " minute")

----------------------------------------------------------------------------
SanitizeCalled == pure.fn = "sanitizeFilename" /\ pure.applied

(* C17: for every filename, the result of sanitizeFilename holds none of   *)
(* the characters < > : " / \ | ? *, no two underscores in a row, and      *)
(* neither starts nor ends with an underscore.                             *)
C17_SanitizedNameIsClean ==
    SanitizeCalled =>
        LET out == pure.out
        IN  /\ \A i \in 1..Len(out) : out[i] \notin {"<", ">", ":", "\"", "/", "\\", "|", "?", "*"}
            /\ \A i \in 1..(Len(out) - 1) : ~(out[i] = "_" /\ out[i + 1] = "_")
            /\ out # <<>> => out[1] # "_" /\ out[Len(out)] # "_"

(* an unsafe character next to white space inside the name: both become   *)
(* one underscore                                                          *)
C17_Witness ==
    /\ SanitizeCalled
    /\ pure.arg = <<"a", "/", " ", "a">>
    /\ pure.out = <<"a", "_", "a">>

----------------------------------------------------------------------------
(* the order of the pipeline: from each position, the positions a run may  *)
(* go to next                                                              *)
PipelineOrder ==
    {<<"authenticate", "awaitCallback">>, <<"authenticate", "extract">>,
     <<"awaitCallback", "extract">>, <<"extract", "fetch">>,
     <<"fetch", "attachments">>, <<"fetch", "render">>,
     <<"attachments", "render">>, <<"render", "metadata">>, <<"metadata", "success">>}
    \cup {<<p, "aborted">> : p \in {"authenticate", "awaitCallback", "extract", "fetch",
                                    "render", "metadata"}}

IsAttachmentFile(file) == Len(file) >= 2 /\ file[1] = "attachments" /\ file[2] = "/"

(* what every state of a sequential run shows *)
SequentialSoFar ==
    LET keys == KeysInOrder(conversation)
    IN  /\ pc \in {"authenticate", "awaitCallback"} => conversationId = <<>>
        /\ conversationId = <<>> => conversation = NoConversation
        /\ conversation = NoConversation => attempts = <<>> /\ inFlight = {}
        /\ Len(attempts) <= Len(keys)
        /\ \A i \in 1..Len(attempts) : attempts[i].key = keys[i]
        /\ Cardinality(inFlight) <= 1
        /\ inFlight # {} =>
              /\ pc = "attachments"
              /\ Len(attempts) < Len(keys)
              /\ inFlight = {keys[Len(attempts) + 1]}
        /\ Rendered => Len(attempts) = Len(keys) /\ inFlight = {}
        /\ \A i \in 1..Len(files) :
              /\ IsAttachmentFile(files[i]) => \A j \in 1..i : IsAttachmentFile(files[j])
              /\ files[i] = MarkdownFile =>
                    Rendered /\ \A j \in 1..(i - 1) : IsAttachmentFile(files[j])
              /\ files[i] = <<"metadata.json">> =>
                    i > 1 /\ files[i - 1] = MarkdownFile /\ i = Len(files)

(* what every step of a sequential run does *)
SequentialStep ==
    /\ pc' # pc => <<pc, pc'>> \in PipelineOrder
    /\ (inFlight' # inFlight /\ inFlight' # {}) => inFlight = {} /\ attempts' = attempts
    /\ attempts' # attempts =>
          /\ Len(attempts') = Len(attempts) + 1
          /\ SubSeq(attempts', 1, Len(attempts)) = attempts
          /\ inFlight = {attempts'[Len(attempts')].key}
          /\ inFlight' = {}
    /\ markdown' # markdown => pc = "render" /\ inFlight = {}
    /\ files' # files => Len(files') = Len(files) + 1 /\ SubSeq(files', 1, Len(files)) = files

(* C18: the pipeline is strictly sequential: authenticate, extract the ID, *)
(* fetch the conversation, then each attachment is attempted exactly once, *)
(* in thread order and within a thread in attachment order, with at most   *)
(* one download in flight; the Markdown is rendered only after every       *)
(* attachment has been attempted, and the transcript is written before     *)
(* metadata.json.                                                          *)
C18_PipelineIsSequential == [](SequentialSoFar) /\ [][SequentialStep]_vars

(* a complete run over two threads and three attachments, two of them      *)
(* written, then the transcript, then metadata.json                        *)
C18_Witness ==
    /\ pc = "success"
    /\ Len(attempts) = 3
    /\ attempts[1].key = PathKey(1, 1) /\ attempts[2].key = PathKey(1, 2)
    /\ attempts[3].key = PathKey(12, 3)
    /\ Len(files) = 4
    /\ IsAttachmentFile(files[1]) /\ IsAttachmentFile(files[2])
    /\ files[3] = MarkdownFile /\ files[4] = <<"metadata.json">>

----------------------------------------------------------------------------
(* C19: the outcome of startAuthServer is decided by the first callback    *)
(* with the session's state and a code: no request that arrives after it,  *)
(* one with a wrong state before the delayed stop for example, is handled  *)
(* or turns the result into a rejection; the promise settles once, with    *)
(* the code of that callback.                                              *)
C19_FirstGoodCallbackDecides ==
    goodCodes # {} =>
        /\ promise.status # "rejected"
        /\ promise.status = "resolved" => promise.value \in goodCodes
        /\ lastReq.status = 200 /\ lastReq.state = nonce /\ lastReq.code \in goodCodes
        /\ Cardinality(goodCodes) = 1

----------------------------------------------------------------------------
(* C20: after authenticate() has returned normally the token store holds a *)
(* record that loadTokens accepts, so that a getValidToken that follows at *)
(* once does not fail with Unauthenticated, whatever 2xx body the token    *)
(* endpoint returned.                                                      *)
C20_AuthenticateLeavesUsableRecord ==
    pc = "extract" =>
        /\ LoadTokens(tokenFile).some
        /\ \A resp \in TokenResponses :
              GetValidToken(tokenFile, now, resp).err # "Unauthenticated"

----------------------------------------------------------------------------
StoreAllCalled == pure.fn = "storeAll" /\ pure.applied

(* C21: within one run two attachments with different (threadId,           *)
(* attachmentId) pairs are never written to the same file path and never   *)
(* share a key of the path index, whatever their filenames, also when the  *)
(* names sanitize to the same or to the empty string: neither download     *)
(* overwrites the file or the index entry of the other.                    *)
C21_DistinctAttachmentsNeverCollide ==
    StoreAllCalled =>
        LET x == pure.arg[1]
            y == pure.arg[2]
            out == pure.out
        IN  <<x.tid, x.att.id>> # <<y.tid, y.att.id>> =>
                /\ Len(out.files) = 2
                /\ out.files[1] # out.files[2]
                /\ Cardinality(out.index) = 2
                /\ \A e, f \in out.index : e # f => e.key # f.key /\ e.path # f.path
                /\ {e.path : e \in out.index}
                      = {<<".", "/">> \o out.files[a] : a \in 1..2}

(* threads 1 and 11, attachments 12 and 2, both names sanitized to the     *)
(* empty string: two files and two index entries                           *)
C21_Witness ==
    /\ StoreAllCalled
    /\ pure.arg[1].tid = 1 /\ pure.arg[1].att.id = 12 /\ pure.arg[1].att.filename = <<"?">>
    /\ pure.arg[2].tid = 11 /\ pure.arg[2].att.id = 2 /\ pure.arg[2].att.filename = <<"_", "?">>
    /\ pure.out.files = << <<"attachments", "/", "1", "_", "1", "2", "_">>,
                           <<"attachments", "/", "1", "1", "_", "2", "_">> >>
    /\ Cardinality(pure.out.index) = 2
====
